---- MODULE Spec2Model ----
(***************************************************************************)
(* Model of src/web/p.py: the scaffold script create_directory_structure   *)
(* and its nested recursive walker create_structure.                       *)
(*                                                                         *)
(* A path is a sequence of names (<<>> is the filesystem root).  The       *)
(* filesystem is a function from the existing paths to their entries.      *)
(* A mapping of the scaffold is the sequence of its items in insertion     *)
(* order (the order dict.items() yields them); an item is a record with    *)
(* the key, whether its value is a dict, the dict's items, and the scalar. *)
(***************************************************************************)
EXTENDS Naturals, Sequences, FiniteSets

VARIABLES
  fs,        \* the filesystem: path -> [kind, data, mtime, ro]
  clock,     \* the kernel's coarse current time at the latest filesystem call
  mode,      \* "entry": create_directory_structure(); "direct": create_structure(P, T)
  args,      \* [base_path, structure]: the arguments of the create_structure call
  pc,        \* "entry", "call", "walk", "returned", "done" or "raised"
  stack,     \* the frames of create_structure, innermost last: [base_path, structure, i]
  err,       \* the exception that left the program: [type, op, path]
  run,       \* the number of the current run
  fs0,       \* the filesystem when the current create_structure call started
  ends,      \* the filesystem at the end of every completed earlier run
  log,       \* the create operations create_structure issued in this run
  reported   \* the path the script printed, <<>> when none

vars == <<fs, clock, mode, args, pc, stack, err, run, fs0, ends, log, reported>>

\* How many times in sequence the program is run on the same filesystem.
MaxRuns == 2

\* How many times the kernel's coarse clock moves on during the runs.
MaxTime == 1

\* NAME_MAX and PATH_MAX - 1: the longest component and the longest path the
\* kernel accepts.
NameMax == 255

PathMax == 4095

\* sys.getrecursionlimit(), and the frames open when create_structure is
\* first called: the module's and create_directory_structure's.
RecursionLimit == 1000

FrameBase == 2

\* The frames of recursion depth that must be free in a create_structure
\* frame for line 153 (the join), line 156 (mkdir) and line 161 (touch).
JoinFrames == 6

MkdirFrames == 6

TouchFrames == 7

(***************************************************************************)
(* The scaffold literal                                                    *)
(***************************************************************************)
D(name, children) == [name |-> name, isdict |-> TRUE, children |-> children, text |-> ""]

F(name, text) == [name |-> name, isdict |-> FALSE, children |-> <<>>, text |-> text]

structure ==
  <<
    D("whatsapp-web-clone", <<
      D("src", <<
        D("app", <<
          D("(auth)", <<
            D("login", <<
              F("page.tsx", "")
            >>),
            D("register", <<
              F("page.tsx", "")
            >>),
            D("verify", <<
              F("page.tsx", "")
            >>),
            F("layout.tsx", "")
          >>),
          D("(main)", <<
            D("chat", <<
              D("[chatId]", <<
                F("page.tsx", "")
              >>),
              F("page.tsx", "")
            >>),
            D("profile", <<
              F("page.tsx", "")
            >>),
            D("settings", <<
              F("page.tsx", "")
            >>),
            F("layout.tsx", "")
          >>),
          D("api", <<
            D("upload", <<
              F("route.ts", "")
            >>)
          >>),
          F("globals.css", ""),
          F("layout.tsx", ""),
          F("loading.tsx", ""),
          F("not-found.tsx", ""),
          F("page.tsx", "")
        >>),
        D("components", <<
          D("ui", <<
            F("avatar.tsx", ""),
            F("button.tsx", ""),
            F("card.tsx", ""),
            F("dialog.tsx", ""),
            F("form.tsx", ""),
            F("input.tsx", ""),
            F("label.tsx", ""),
            F("scroll-area.tsx", ""),
            F("separator.tsx", ""),
            F("toast.tsx", ""),
            F("toaster.tsx", ""),
            F("tooltip.tsx", "")
          >>),
          D("auth", <<
            F("magic-link-form.tsx", ""),
            F("qr-code-scanner.tsx", ""),
            F("register-form.tsx", ""),
            F("auth-guard.tsx", "")
          >>),
          D("chat", <<
            F("chat-list.tsx", ""),
            F("chat-item.tsx", ""),
            F("chat-header.tsx", ""),
            F("message-list.tsx", ""),
            F("message-item.tsx", ""),
            F("message-input.tsx", ""),
            F("typing-indicator.tsx", ""),
            F("message-status.tsx", ""),
            F("new-chat-dialog.tsx", "")
          >>),
          D("media", <<
            F("image-viewer.tsx", ""),
            F("file-upload.tsx", ""),
            F("voice-recorder.tsx", ""),
            F("media-gallery.tsx", "")
          >>),
          D("layout", <<
            F("sidebar.tsx", ""),
            F("header.tsx", ""),
            F("mobile-nav.tsx", ""),
            F("search-bar.tsx", "")
          >>),
          D("common", <<
            F("loading-spinner.tsx", ""),
            F("error-boundary.tsx", ""),
            F("theme-provider.tsx", ""),
            F("socket-provider.tsx", "")
          >>)
        >>),
        D("lib", <<
          F("utils.ts", ""),
          F("auth.ts", ""),
          F("api.ts", ""),
          F("socket.ts", ""),
          F("validation.ts", ""),
          F("constants.ts", ""),
          F("storage.ts", "")
        >>),
        D("hooks", <<
          F("use-auth.ts", ""),
          F("use-socket.ts", ""),
          F("use-chat.ts", ""),
          F("use-messages.ts", ""),
          F("use-toast.ts", ""),
          F("use-media-query.ts", ""),
          F("use-local-storage.ts", "")
        >>),
        D("types", <<
          F("auth.ts", ""),
          F("chat.ts", ""),
          F("message.ts", ""),
          F("user.ts", ""),
          F("api.ts", "")
        >>),
        D("store", <<
          F("auth-store.ts", ""),
          F("chat-store.ts", ""),
          F("message-store.ts", ""),
          F("ui-store.ts", "")
        >>),
        D("config", <<
          F("env.ts", ""),
          F("api-endpoints.ts", "")
        >>)
      >>),
      D("public", <<
        D("icons", <<
          F("whatsapp.svg", ""),
          F("send.svg", ""),
          F("attachment.svg", "")
        >>),
        D("images", <<
          F("default-avatar.png", ""),
          F("qr-code-placeholder.png", ""),
          F("whatsapp-bg.jpg", "")
        >>),
        D("sounds", <<
          F("notification.mp3", ""),
          F("message-sent.mp3", "")
        >>),
        F("favicon.ico", ""),
        F("manifest.json", "")
      >>),
      F("next.config.js", ""),
      F("tailwind.config.js", ""),
      F("tsconfig.json", ""),
      F("components.json", ""),
      F(".env.local", ""),
      F(".env.example", ""),
      F(".gitignore", ""),
      F("README.md", ""),
      F("package.json", "")
    >>)
  >>

(***************************************************************************)
(* The filesystem and the two pathlib calls                                *)
(***************************************************************************)
Absent == [kind |-> "absent", data |-> "", mtime |-> 0, ro |-> FALSE]

\* The lexical parent of a path (Path.parent).
Parent(p) == SubSeq(p, 1, Len(p) - 1)

\* One piece of a key between two separators: '' and '.' are dropped.
Keep(part) == IF part = "" \/ part = "." THEN <<>> ELSE <<part>>

\* The position of the first separator of s at or after its i-th character,
\* or the position after its last character.
NextSep(s, i) ==
  LET seps == {j \in i..Len(s) : SubSeq(s, j, j) = "/"} IN
  IF seps = {} THEN Len(s) + 1 ELSE CHOOSE j \in seps : \A k \in seps : j <= k

\* The components of s from its i-th character on.
RECURSIVE SplitFrom(_, _)
SplitFrom(s, i) ==
  IF i > Len(s) THEN <<>>
  ELSE Keep(SubSeq(s, i, NextSep(s, i) - 1)) \o SplitFrom(s, NextSep(s, i) + 1)

\* The components pathlib parses a key into: split at '/', '..' kept.
SplitName(name) == SplitFrom(name, 1)

\* The key has a root: joining it drops the path before it.
IsAbs(name) == Len(name) > 0 /\ SubSeq(name, 1, 1) = "/"

\* Path(name): the base path forgotten
ChildPathAtRoot(base_path, name) == SplitName(name)

\* Path(base_path) / name
ChildPath(base_path, name) ==
  IF IsAbs(name) THEN SplitName(name) ELSE base_path \o SplitName(name)

\* The kernel's walk along the components `rest` from the directory cur: the
\* entry the path names ('..' is the parent of the directory reached, the
\* root's parent being the root), or the error of the first component that
\* is too long, or that is missing or no directory before the last one. The
\* last component may be missing.
RECURSIVE Walk(_, _, _)
Walk(f, cur, rest) ==
  IF Len(rest) = 0 THEN [err |-> "", path |-> cur]
  ELSE LET nxt == IF Head(rest) = ".." THEN Parent(cur) ELSE cur \o <<Head(rest)>> IN
       IF Len(Head(rest)) > NameMax THEN [err |-> "OSError(ENAMETOOLONG)", path |-> nxt]
       ELSE IF Len(rest) = 1 THEN [err |-> "", path |-> nxt]
       ELSE IF nxt \notin DOMAIN f THEN [err |-> "FileNotFoundError", path |-> nxt]
       ELSE IF f[nxt].kind # "dir" THEN [err |-> "NotADirectoryError", path |-> nxt]
       ELSE Walk(f, nxt, Tail(rest))

\* The length of str(path): a separator before every component.
RECURSIVE PathLen(_)
PathLen(p) == IF Len(p) = 0 THEN 0 ELSE 1 + Len(Head(p)) + PathLen(Tail(p))

Resolve(f, p) ==
  IF PathLen(p) > PathMax THEN [err |-> "OSError(ENAMETOOLONG)", path |-> p]
  ELSE Walk(f, <<>>, p)

\* The entry p names exists (os.stat succeeds).
Exists(f, p) == Resolve(f, p).err = "" /\ Resolve(f, p).path \in DOMAIN f

Lookup(f, p) == IF Exists(f, p) THEN f[Resolve(f, p).path] ELSE Absent

\* Path.is_dir()
IsDir(f, p) == Exists(f, p) /\ f[Resolve(f, p).path].kind = "dir"

\* A new entry e at the resolved path q; the parent directory's modification
\* time moves.
AddEntry(f, q, e, now) ==
  [x \in DOMAIN f \cup {q} |->
     IF x = q THEN e
     ELSE IF x = Parent(q) THEN [f[x] EXCEPT !.mtime = now]
     ELSE f[x]]

\* The modification time of the existing entry p set to now (os.utime).
Utime(f, p, now) == [f EXCEPT ![Resolve(f, p).path] = [@ EXCEPT !.mtime = now]]

\* The errno of creating a new entry at p ("" when the entry can be created).
CreateErr(f, p) ==
  LET r == Resolve(f, p) IN
  IF r.err # "" THEN r.err
  ELSE IF r.path \in DOMAIN f THEN "FileExistsError"
  ELSE IF f[Parent(r.path)].ro THEN "PermissionError"
  ELSE ""

NewDir(now) == [kind |-> "dir", data |-> "", mtime |-> now, ro |-> FALSE]

NewFile(now) == [kind |-> "file", data |-> "", mtime |-> now, ro |-> FALSE]

\* os.mkdir(p)
OsMkdir(f, p, now) ==
  IF CreateErr(f, p) # "" THEN [fs |-> f, err |-> CreateErr(f, p)]
  ELSE [fs |-> AddEntry(f, Resolve(f, p).path, NewDir(now), now), err |-> ""]

\* Path.mkdir(parents, exist_ok) with `room` frames of recursion depth free.
\* The call for a missing parent runs one frame deeper; is_dir() on a target
\* whose stat fails with ENAMETOOLONG needs one frame more.
RECURSIVE PathMkdir(_, _, _, _, _, _)
PathMkdir(f, p, parents, exist_ok, now, room) ==
  LET r == OsMkdir(f, p, now) IN
  IF room < MkdirFrames THEN [fs |-> f, err |-> "RecursionError"]
  ELSE IF r.err = "" THEN r
  ELSE IF r.err = "FileNotFoundError" THEN
    IF ~parents \/ Len(p) = 0 THEN r
    ELSE LET rp == PathMkdir(f, Parent(p), TRUE, TRUE, now, room - 1) IN
         IF rp.err # "" THEN rp ELSE PathMkdir(rp.fs, p, FALSE, exist_ok, now, room - 1)
  ELSE IF ~exist_ok THEN r
  ELSE IF IsDir(f, p) THEN [fs |-> f, err |-> ""]
  ELSE IF Resolve(f, p).err = "OSError(ENAMETOOLONG)" /\ room < MkdirFrames + 1
    THEN [fs |-> f, err |-> "RecursionError"]
  ELSE r

\* os.open(p, O_CREAT | O_WRONLY) and close, p not existing
OpenCreate(f, p, now) ==
  IF CreateErr(f, p) # "" THEN [fs |-> f, err |-> CreateErr(f, p)]
  ELSE [fs |-> AddEntry(f, Resolve(f, p).path, NewFile(now), now), err |-> ""]

\* A touch that leaves an existing entry alone: if not path.exists(): create.
PathTouchIfMissing(f, p, now, room) ==
  IF Exists(f, p) THEN [fs |-> f, err |-> ""] ELSE OpenCreate(f, p, now)

\* A touch that opens the file for writing: open(path, "w").close().
PathTouchTruncating(f, p, now, room) ==
  IF Exists(f, p) THEN
    IF Lookup(f, p).kind = "dir" THEN [fs |-> f, err |-> "IsADirectoryError"]
    ELSE [fs |-> [f EXCEPT ![Resolve(f, p).path] = [@ EXCEPT !.data = "", !.mtime = now]],
          err |-> ""]
  ELSE OpenCreate(f, p, now)

\* Path.touch() with `room` frames of recursion depth free: os.utime(p) on an
\* existing entry of either kind, else os.open(p, O_CREAT | O_WRONLY) and
\* close.
PathTouch(f, p, now, room) ==
  IF room < TouchFrames THEN [fs |-> f, err |-> "RecursionError"]
  ELSE IF Exists(f, p) THEN [fs |-> Utime(f, p, now), err |-> ""]
  ELSE OpenCreate(f, p, now)

(***************************************************************************)
(* Inputs: trees, base paths and initial filesystems                       *)
(***************************************************************************)
\* Scenario A of the specification.
TreeA == << D("root", << D("a", << F("x.txt", "") >>), F("b.txt", "") >>) >>

\* Scenario C: an empty directory.
TreeC == << D("d", <<>>) >>

\* A file first, with a non-empty scalar, then a directory.
TreeS == << F("f.txt", "seed"), D("d", << F("g.txt", "") >>) >>

\* Two sibling directories with a subtree each.
TreeB == << D("a", << F("x.txt", "seed") >>), D("b", << F("y.txt", "") >>) >>

\* A name of n characters.
RECURSIVE Rep(_)
Rep(n) ==
  IF n = 0 THEN ""
  ELSE IF n % 2 = 0 THEN Rep(n \div 2) \o Rep(n \div 2)
  ELSE "k" \o Rep(n - 1)

LongName == Rep(NameMax + 1)

\* A file whose name is one character too long, between two others.
TreeL == << F("a.txt", ""), F(LongName, ""), F("b.txt", "") >>

\* A directory whose name is one character too long.
TreeM == << F("b.txt", ""), D(LongName, << F("x.txt", "") >>) >>

Trees == {TreeA, TreeC, TreeS, TreeB, TreeL, TreeM}

BaseP == <<"tmp", "test1">>

Cwd == <<"home", "work">>

\* base_dir = Path.cwd() / "whatsapp-web-clone"
base_dir == Cwd \o <<"whatsapp-web-clone">>

(* Reference definitions for the inputs and the properties: the nodes of a  *)
(* mapping under a base path, listed parent first and siblings in the      *)
(* mapping's order.                                                        *)
RECURSIVE Preorder(_, _)
Preorder(base, items) ==
  IF Len(items) = 0 THEN <<>>
  ELSE LET n == Head(items)
           p == base \o <<n.name>>
       IN  << [path |-> p, isdict |-> n.isdict, text |-> n.text] >>
           \o (IF n.isdict THEN Preorder(p, n.children) ELSE <<>>)
           \o Preorder(base, Tail(items))

Range(s) == {s[i] : i \in 1..Len(s)}

Nodes(base, items) == Range(Preorder(base, items))

NodePaths(base, items) == {n.path : n \in Nodes(base, items)}

Prefixes(p) == {SubSeq(p, 1, k) : k \in 0..Len(p)}

Choices == {"absent", "dir", "rodir", "file", "data"}

EntryOf(c) ==
  [kind |-> IF c \in {"dir", "rodir"} THEN "dir" ELSE "file",
   data |-> IF c = "data" THEN "old" ELSE "",
   mtime |-> 0,
   ro |-> (c = "rodir")]

\* The filesystems in which `root` is a directory (read-only or not) below
\* writable ancestors, each path of U is absent, a directory or a file, and
\* each path of S is absent or a file with content, every existing path lying
\* in an existing directory and having a name the kernel accepts.
Layouts(root, U, S) ==
  LET ok(c) == \A p \in U \cup S : c[p] # "absent" =>
                 /\ Len(p[Len(p)]) <= NameMax
                 /\ p \in S => c[p] = "data"
                 /\ (Parent(p) = root \/ (Parent(p) \in U /\ c[Parent(p)] \in {"dir", "rodir"}))
      build(c, rc) ==
        [p \in Prefixes(root) \cup {q \in U \cup S : c[q] # "absent"} |->
           IF p = root THEN EntryOf(rc)
           ELSE IF p \in Prefixes(root) THEN EntryOf("dir")
           ELSE EntryOf(c[p])]
  IN  {build(c, rc) : c \in {d \in [U \cup S -> Choices] : ok(d)}, rc \in {"dir", "rodir"}}

NoErr == [type |-> "", op |-> "", path |-> <<>>]

EntryPaths == {base_dir}

InitDirect ==
  /\ mode = "direct"
  /\ \E T \in Trees :
       /\ args = [base_path |-> BaseP, structure |-> T]
       /\ fs \in Layouts(BaseP, NodePaths(BaseP, T), {BaseP \o <<"stale.txt">>})
  /\ pc = "call"

InitEntry ==
  /\ mode = "entry"
  /\ args = [base_path |-> base_dir, structure |-> structure]
  /\ fs \in Layouts(Cwd, EntryPaths, {})
  /\ pc = "entry"

InitRest ==
  /\ clock = 0
  /\ stack = <<>>
  /\ err = NoErr
  /\ run = 1
  /\ fs0 = fs
  /\ ends = <<>>
  /\ log = <<>>
  /\ reported = <<>>

\* create_structure called on a tree and a base path.
Init == InitDirect /\ InitRest

\* The script started in the working directory.
InitScript == InitEntry /\ InitRest

(***************************************************************************)
(* create_structure                                                        *)
(***************************************************************************)
Top == stack[Len(stack)]

\* The frames of recursion depth free in the innermost create_structure frame.
Room(stk) == RecursionLimit - FrameBase - Len(stk)

\* The kernel's coarse time at the next filesystem call: the same tick as at
\* the latest call, or the next one.
Nows == {clock} \cup (IF clock < MaxTime THEN {clock + 1} ELSE {})

Item == Top.structure[Top.i]

\* path.mkdir(parents=True) without exist_ok
DirBranchExclusive(f, path, now, room) == PathMkdir(f, path, TRUE, FALSE, now, room)

\* line 156: path.mkdir(parents=True, exist_ok=True)
DirBranch(f, path, now, room) == PathMkdir(f, path, TRUE, TRUE, now, room)

\* A file branch that writes the scalar: path.write_text(content)
FileBranchSeeded(f, path, content, now, room) ==
  LET r == PathTouch(f, path, now, room) IN
  IF r.err # "" \/ Lookup(r.fs, path).kind # "file" THEN r
  ELSE [fs |-> [r.fs EXCEPT ![Resolve(r.fs, path).path] = [@ EXCEPT !.data = content]],
        err |-> ""]

\* lines 159-161: path.touch(); the scalar is not used
FileBranch(f, path, content, now, room) == PathTouch(f, path, now, room)

\* The recursive call queued behind the frames in progress.
DescendDeferred(stk, path, content) ==
  << [base_path |-> path, structure |-> content, i |-> 1] >>
  \o [stk EXCEPT ![Len(stk)] = [@ EXCEPT !.i = @ + 1]]

\* line 158: create_structure(path, content); the loop of the caller goes on
\* with its next item when the call returns.
Descend(stk, path, content) ==
  Append([stk EXCEPT ![Len(stk)] = [@ EXCEPT !.i = @ + 1]],
         [base_path |-> path, structure |-> content, i |-> 1])

\* The exception caught and ignored: try: ... except OSError: pass
AfterOpSwallow(e, continued) == [pc |-> "walk", stack |-> continued]

\* No try/except anywhere: an exception leaves every frame.
AfterOp(e, continued) ==
  IF e # "" THEN [pc |-> "raised", stack |-> <<>>]
  ELSE [pc |-> "walk", stack |-> continued]

LogEntry(op, node, path, r, now) ==
  [op |-> op, path |-> path, text |-> node.text,
   before |-> Lookup(fs, path), after |-> Lookup(r.fs, path),
   parentDir |-> IsDir(fs, Parent(path)), at |-> now, err |-> r.err]

\* line 153 with too little recursion depth left: RecursionError before any
\* filesystem call of the item.
JoinRaises ==
  /\ pc' = "raised"
  /\ stack' = <<>>
  /\ err' = [type |-> "RecursionError", op |-> "path.join", path |-> Top.base_path]
  /\ UNCHANGED <<fs, clock, log>>

\* line 165: base_dir.mkdir(exist_ok=True)
EntryMkdir ==
  /\ pc = "entry"
  /\ \E now \in Nows :
       LET r == PathMkdir(fs, base_dir, FALSE, TRUE, now, RecursionLimit - FrameBase) IN
       /\ fs' = r.fs
       /\ pc' = IF r.err # "" THEN "raised" ELSE "call"
       /\ err' = IF r.err # "" THEN [type |-> r.err, op |-> "base_dir.mkdir", path |-> base_dir]
                 ELSE NoErr
       /\ clock' = now
  /\ UNCHANGED <<mode, args, stack, run, fs0, ends, log, reported>>

\* line 168: create_structure(base_dir, structure); in a direct run, the call on the given arguments
Call ==
  /\ pc = "call"
  /\ stack' = << [base_path |-> args.base_path, structure |-> args.structure, i |-> 1] >>
  /\ pc' = "walk"
  /\ fs0' = fs
  /\ log' = <<>>
  /\ UNCHANGED <<fs, clock, mode, args, err, run, ends, reported>>

\* lines 152-158: the next item is a dict
MkdirStep ==
  /\ pc = "walk"
  /\ Len(stack) > 0
  /\ Top.i <= Len(Top.structure)
  /\ Item.isdict
  /\ IF Room(stack) < JoinFrames THEN JoinRaises
     ELSE \E now \in Nows :
       LET path == ChildPath(Top.base_path, Item.name)
           r == DirBranch(fs, path, now, Room(stack))
           next == AfterOp(r.err, Descend(stack, path, Item.children))
       IN  /\ fs' = r.fs
           /\ pc' = next.pc
           /\ stack' = next.stack
           /\ err' = IF next.pc = "raised" THEN [type |-> r.err, op |-> "path.mkdir", path |-> path]
                     ELSE NoErr
           /\ log' = Append(log, LogEntry("mkdir", Item, path, r, now))
           /\ clock' = now
  /\ UNCHANGED <<mode, args, run, fs0, ends, reported>>

\* lines 152-153, 159-161: the next item is not a dict
TouchStep ==
  /\ pc = "walk"
  /\ Len(stack) > 0
  /\ Top.i <= Len(Top.structure)
  /\ ~Item.isdict
  /\ IF Room(stack) < JoinFrames THEN JoinRaises
     ELSE \E now \in Nows :
       LET path == ChildPath(Top.base_path, Item.name)
           r == FileBranch(fs, path, Item.text, now, Room(stack))
           next == AfterOp(r.err, [stack EXCEPT ![Len(stack)] = [@ EXCEPT !.i = @ + 1]])
       IN  /\ fs' = r.fs
           /\ pc' = next.pc
           /\ stack' = next.stack
           /\ err' = IF next.pc = "raised" THEN [type |-> r.err, op |-> "path.touch", path |-> path]
                     ELSE NoErr
           /\ log' = Append(log, LogEntry("touch", Item, path, r, now))
           /\ clock' = now
  /\ UNCHANGED <<mode, args, run, fs0, ends, reported>>

\* line 152: the loop is exhausted and the call returns
Return ==
  /\ pc = "walk"
  /\ Len(stack) > 0
  /\ Top.i > Len(Top.structure)
  /\ stack' = SubSeq(stack, 1, Len(stack) - 1)
  /\ pc' = IF Len(stack) = 1 THEN "returned" ELSE "walk"
  /\ UNCHANGED <<fs, clock, mode, args, err, run, fs0, ends, log, reported>>

\* line 169: print(f"Project structure created successfully at: {base_dir}")
Report ==
  /\ pc = "returned"
  /\ mode = "entry"
  /\ reported' = base_dir
  /\ pc' = "done"
  /\ UNCHANGED <<fs, clock, mode, args, stack, err, run, fs0, ends, log>>

\* create_structure is called again, with the same arguments, after a call
\* that returned.
Rerun ==
  /\ pc = "returned"
  /\ mode = "direct"
  /\ run < MaxRuns
  /\ run' = run + 1
  /\ ends' = Append(ends, fs)
  /\ pc' = "call"
  /\ UNCHANGED <<fs, clock, mode, args, stack, err, fs0, log, reported>>

Next == Call \/ MkdirStep \/ TouchStep \/ Return \/ Rerun

\* Calls of create_structure on the input trees.
Spec == Init /\ [][Next]_vars

NextScript == EntryMkdir \/ Call \/ MkdirStep \/ TouchStep \/ Return \/ Report

\* One run of the script, create_directory_structure().
SpecScript == InitScript /\ [][NextScript]_vars

(***************************************************************************)
(* Properties                                                              *)
(***************************************************************************)
\* The nodes of the tree of the current call, in pre-order.
Pre == Preorder(args.base_path, args.structure)

TreeNodes == Nodes(args.base_path, args.structure)

Finished == pc \in {"returned", "done"}

\* create_structure is running, has returned or has raised.
InCall == pc \in {"walk", "returned", "done"} \/ (pc = "raised" /\ err.op # "base_dir.mkdir")

\* What the claims call the filesystem state: which paths are directories,
\* which are files, and what the files hold.
Content(f) == [p \in DOMAIN f |-> [kind |-> f[p].kind, data |-> f[p].data]]

\* The operation found its target existing with the kind the tree asks for.
ExpectedKind(e) ==
  \/ e.op = "mkdir" /\ e.before.kind = "dir"
  \/ e.op = "touch" /\ e.before.kind = "file"

\* The operation found its target existing with the other kind.
WrongKind(e) ==
  \/ e.op = "mkdir" /\ e.before.kind = "file"
  \/ e.op = "touch" /\ e.before.kind = "dir"

\* C1: when create_structure has returned, every node of the tree exists
\* under the base path, as a directory if its value is a dict and as a
\* regular file otherwise.
C1_StructuralFidelity ==
  Finished =>
    \A n \in TreeNodes :
      /\ n.path \in DOMAIN fs
      /\ fs[n.path].kind = (IF n.isdict THEN "dir" ELSE "file")

\* C2: a run that follows a successful run raises no error and ends with
\* the same directories, the same files and the same file contents.
C2_Idempotence ==
  run >= 2 =>
    /\ pc # "raised"
    /\ Finished => Content(fs) = Content(ends[run - 1])

C2_Witness ==
  /\ run = 2
  /\ pc = "returned"
  /\ Len(log) >= 4
  /\ \A i \in 1..Len(log) : log[i].before.kind # "absent"

\* C3: a file with non-empty content at a leaf path of the tree when the
\* walk starts is, in every state of the walk and after it, still a file
\* with the same content.
C3_NonDestructive ==
  \A n \in TreeNodes :
    (~n.isdict /\ Lookup(fs0, n.path).kind = "file" /\ Lookup(fs0, n.path).data # "") =>
      /\ Lookup(fs, n.path).kind = "file"
      /\ Lookup(fs, n.path).data = fs0[n.path].data

C3_Witness ==
  /\ pc = "returned"
  /\ \E i \in 1..Len(log) :
       log[i].op = "touch" /\ log[i].before.data = "old" /\ log[i].err = ""

\* C4: an operation that finds its target occupied by an entry of the other
\* kind raises, and is the last operation of the walk.
C4_WrongKindRaises ==
  \A i \in 1..Len(log) :
    WrongKind(log[i]) => (log[i].err # "" /\ i = Len(log) /\ pc = "raised")

\* C5: an operation that fails is the last one issued and its error leaves
\* create_structure; the entries of the nodes visited before it are still on
\* disk, and the operations issued are those of the nodes up to the failing
\* one in traversal order.
C5_PartialFailure ==
  /\ \A i \in 1..Len(log) : log[i].err # "" => (i = Len(log) /\ pc = "raised")
  /\ (pc = "raised" /\ err.op \in {"path.mkdir", "path.touch"}) =>
     LET pre == Pre IN
       /\ Len(stack) = 0
       /\ Len(log) >= 1 /\ Len(log) <= Len(pre)
       /\ log[Len(log)].err = err.type /\ err.type # ""
       /\ log[Len(log)].path = err.path
       /\ \A i \in 1..Len(log) : log[i].path = pre[i].path
       /\ \A i \in 1..(Len(log) - 1) :
            /\ log[i].path \in DOMAIN fs
            /\ fs[log[i].path].kind = log[i].after.kind
            /\ fs[log[i].path].data = log[i].after.data

C5_Witness ==
  /\ pc = "raised"
  /\ Len(log) >= 2
  /\ Len(log) < Len(Pre)
  /\ \E i \in 1..(Len(log) - 1) : log[i].before.kind = "absent"

\* C6: (a) every operation is issued when the parent of its target is a
\* directory on disk; (b) the operations are issued in pre-order, so all
\* operations of a node's subtree come after the node's own and before any
\* operation of its next sibling.
C6_Ordering ==
  LET pre == Pre IN
  /\ Len(log) <= Len(pre)
  /\ \A i \in 1..Len(log) :
       /\ log[i].parentDir
       /\ log[i].path = pre[i].path
       /\ log[i].op = (IF pre[i].isdict THEN "mkdir" ELSE "touch")

C6_Witness ==
  /\ pc = "returned"
  /\ Len(log) = Len(Pre)
  /\ \E i \in 1..Len(log) :
       /\ log[i].op = "mkdir" /\ log[i].before.kind = "absent"
       /\ i + 2 <= Len(log)
       /\ Parent(log[i + 1].path) = log[i].path
       /\ Parent(log[i + 2].path) = Parent(log[i].path)

\* C7 as claimed: an operation on a target that exists with the expected
\* kind changes nothing of the entry, its modification time included.
C7_NoOpOnExisting ==
  \A i \in 1..Len(log) : ExpectedKind(log[i]) => log[i].after = log[i].before

\* C7 as amended: an operation on a target that exists with the expected
\* kind raises no error and keeps the entry's kind and content; a directory
\* is left exactly as it was, and a file gets the current time as its
\* modification time, which is the old value or a later one.
C7_ExistingKeepsContent ==
  \A i \in 1..Len(log) :
    ExpectedKind(log[i]) =>
      /\ log[i].err = ""
      /\ log[i].after.kind = log[i].before.kind
      /\ log[i].after.data = log[i].before.data
      /\ log[i].after.ro = log[i].before.ro
      /\ log[i].op = "mkdir" => log[i].after = log[i].before
      /\ log[i].op = "touch" =>
           (log[i].after.mtime = log[i].at /\ log[i].at >= log[i].before.mtime)

C7_Witness ==
  /\ pc = "returned"
  /\ \E i \in 1..Len(log) :
       log[i].op = "touch" /\ log[i].before.kind = "file" /\ log[i].before.data = "old"
       /\ log[i].after.mtime # log[i].before.mtime
  /\ \E i \in 1..Len(log) : log[i].op = "mkdir" /\ log[i].before.kind = "dir"

\* C8: a leaf whose path did not exist when the walk started is, once
\* created, a file of length 0, whatever its scalar value; after the walk
\* every such leaf exists.
C8_CreatedEmpty ==
  \A n \in TreeNodes :
    (~n.isdict /\ n.path \notin DOMAIN fs0) =>
      /\ n.path \in DOMAIN fs => (fs[n.path].kind = "file" /\ fs[n.path].data = "")
      /\ Finished => n.path \in DOMAIN fs

C8_Witness ==
  /\ pc = "returned"
  /\ \E n \in TreeNodes :
       /\ ~n.isdict /\ n.text # ""
       /\ n.path \notin DOMAIN fs0
       /\ n.path \in DOMAIN fs /\ fs[n.path].data = ""

\* C9: the path the script reports is the directory made for the root key
\* of the scaffold, the one that holds the scaffold's top-level entries.
C9_ReportedIsRoot ==
  pc = "done" =>
    /\ reported = args.base_path \o <<args.structure[1].name>>
    /\ \A k \in 1..Len(args.structure[1].children) :
         (reported \o <<args.structure[1].children[k].name>>) \in DOMAIN fs

\* C10: during and after the walk every entry that existed when it started
\* still exists with its kind, every entry added is a node of the tree under
\* the base path, and no path receives two operations.
C10_Frame ==
  InCall =>
    LET paths == NodePaths(args.base_path, args.structure) IN
    /\ \A p \in DOMAIN fs0 : p \in DOMAIN fs /\ fs[p].kind = fs0[p].kind
    /\ \A p \in DOMAIN fs : p \in DOMAIN fs0 \/ p \in paths
    /\ \A i \in 1..Len(log) : log[i].path \in paths
    /\ Cardinality({log[i].path : i \in 1..Len(log)}) = Len(log)

C10_Witness ==
  /\ pc = "raised"
  /\ (BaseP \o <<"stale.txt">>) \in DOMAIN fs0
  /\ \E p \in DOMAIN fs : p \notin DOMAIN fs0
====
